---- MODULE Spec2Model ----
(***************************************************************************)
(* A model of sf-package-xml-diff (src/index.js): the command line tool    *)
(* that classifies the paths changed between two git branches into a       *)
(* Salesforce manifest (package-diff.xml) and, in deploy mode, drives the  *)
(* retrieve / extract / patch / zip / deploy pipeline.                     *)
(*                                                                         *)
(* JavaScript strings are modelled as sequences of one-character strings,  *)
(* so that split, includes, endsWith, indexOf and replace are computed the *)
(* way the runtime computes them.  The JavaScript values undefined and     *)
(* null are the two tuples Undefined and Null, which no string equals.     *)
(***************************************************************************)
EXTENDS Integers, Sequences, FiniteSets, TLC

\* ------------------------------------------------------------------------
\* JavaScript values and string primitives
\* ------------------------------------------------------------------------

Undefined == <<"undefined">>

Null == <<"null">>

\* JavaScript truthiness of a string-or-undefined-or-null value.
Truthy(v) == v # Undefined /\ v # Null /\ v # <<>>

\* Template-literal / string conversion of a value: `${v}`.
ToStr(v) ==
    IF v = Undefined THEN <<"u","n","d","e","f","i","n","e","d">>
    ELSE IF v = Null THEN <<"n","u","l","l">>
    ELSE v

\* arr[i] with a 0-based index; out of range reads give undefined.
JsAt(arr, i) == IF i >= 0 /\ i < Len(arr) THEN arr[i + 1] ELSE Undefined

\* Array.prototype.indexOf: the 0-based index of the first element equal
\* to x, or -1.
ArrayIndexOf(arr, x) ==
    LET hits == {i \in 1..Len(arr) : arr[i] = x}
    IN IF hits = {} THEN -1 ELSE (CHOOSE i \in hits : \A j \in hits : i <= j) - 1

\* Array.prototype.includes.
ArrayIncludes(arr, x) == \E i \in 1..Len(arr) : arr[i] = x

\* The 1-based position of the first occurrence of t in s, or 0.
IndexOfSub(s, t) ==
    LET hits == {i \in 1..(Len(s) - Len(t) + 1) : SubSeq(s, i, i + Len(t) - 1) = t}
    IN IF hits = {} THEN 0 ELSE CHOOSE i \in hits : \A j \in hits : i <= j

\* String.prototype.includes.
Includes(s, t) == IndexOfSub(s, t) # 0

\* String.prototype.endsWith.
EndsWith(s, t) ==
    Len(t) <= Len(s) /\ SubSeq(s, Len(s) - Len(t) + 1, Len(s)) = t

\* String.prototype.startsWith.
StartsWith(s, t) == Len(t) <= Len(s) /\ SubSeq(s, 1, Len(t)) = t

\* String.prototype.split with a non-empty separator.
RECURSIVE Split(_, _)
Split(s, sep) ==
    LET i == IndexOfSub(s, sep)
    IN IF i = 0 THEN <<s>>
       ELSE <<SubSeq(s, 1, i - 1)>> \o Split(SubSeq(s, i + Len(sep), Len(s)), sep)

\* Array.prototype.join.
RECURSIVE Join(_, _)
Join(arr, sep) ==
    IF arr = <<>> THEN <<>>
    ELSE IF Len(arr) = 1 THEN ToStr(arr[1])
    ELSE ToStr(arr[1]) \o sep \o Join(Tail(arr), sep)

\* The replacement text of String.prototype.replace(string, string): in the
\* replacement, $$ is a dollar sign and $& the matched text.  (The two
\* patterns for the text before and after the match are left out: no label
\* of the model holds them.)
RECURSIVE ExpandReplacement(_, _)
ExpandReplacement(rep, matched) ==
    IF rep = <<>> THEN <<>>
    ELSE IF rep[1] = "$" /\ Len(rep) >= 2 /\ rep[2] \in {"$", "&"}
         THEN (IF rep[2] = "$" THEN <<"$">> ELSE matched)
              \o ExpandReplacement(SubSeq(rep, 3, Len(rep)), matched)
         ELSE <<rep[1]>> \o ExpandReplacement(Tail(rep), matched)

\* A replace that goes on behind the first occurrence: every occurrence of
\* pat is replaced.
RECURSIVE ReplaceFirst_Every(_, _, _)
ReplaceFirst_Every(s, pat, rep) ==
    LET i == IndexOfSub(s, pat)
    IN IF i = 0 THEN s
       ELSE SubSeq(s, 1, i - 1) \o ExpandReplacement(rep, pat)
            \o ReplaceFirst_Every(SubSeq(s, i + Len(pat), Len(s)), pat, rep)

\* String.prototype.replace with a string pattern: only the FIRST occurrence
\* of pat is replaced; without an occurrence the string is returned as is.
ReplaceFirst(s, pat, rep) ==
    LET i == IndexOfSub(s, pat)
    IN IF i = 0 THEN s
       ELSE SubSeq(s, 1, i - 1) \o ExpandReplacement(rep, pat)
            \o SubSeq(s, i + Len(pat), Len(s))

Letters ==
    {"a","b","c","d","e","f","g","h","i","j","k","l","m",
     "n","o","p","q","r","s","t","u","v","w","x","y","z",
     "A","B","C","D","E","F","G","H","I","J","K","L","M",
     "N","O","P","Q","R","S","T","U","V","W","X","Y","Z"}

\* s.replace(/\.([a-zA-Z]+-)?meta\.xml$/, ""): strips a trailing ".meta.xml"
\* or a trailing ".<letters>-meta.xml"; anything else is left alone.
StripMetaSuffix(s) ==
    LET dotMeta == <<".","m","e","t","a",".","x","m","l">>
        dashMeta == <<"-","m","e","t","a",".","x","m","l">>
        n == Len(s)
    IN IF EndsWith(s, dotMeta) THEN SubSeq(s, 1, n - Len(dotMeta))
       ELSE IF EndsWith(s, dashMeta)
            THEN LET e == n - Len(dashMeta)   \* last position of the letters
                     starts == {d \in 1..(e - 1) :
                                   /\ s[d] = "."
                                   /\ \A k \in (d + 1)..e : s[k] \in Letters}
                 IN IF starts = {} THEN s
                    ELSE SubSeq(s, 1, (CHOOSE d \in starts : TRUE) - 1)
            ELSE s

UpperCase ==
    <<"A","B","C","D","E","F","G","H","I","J","K","L","M",
      "N","O","P","Q","R","S","T","U","V","W","X","Y","Z">>

LowerCase ==
    <<"a","b","c","d","e","f","g","h","i","j","k","l","m",
      "n","o","p","q","r","s","t","u","v","w","x","y","z">>

\* String.prototype.toLowerCase.
ToLowerCase(s) ==
    [i \in 1..Len(s) |->
        IF \E k \in 1..Len(UpperCase) : UpperCase[k] = s[i]
        THEN LowerCase[CHOOSE k \in 1..Len(UpperCase) : UpperCase[k] = s[i]]
        ELSE s[i]]

\* The collation order localeCompare gives the characters of lower-cased
\* component names: punctuation, then digits, then letters.
CollationOrder ==
    <<"_","-",".","/","$","0","1","2","3","4","5","6","7","8","9">> \o LowerCase

Rank(c) ==
    IF \E k \in 1..Len(CollationOrder) : CollationOrder[k] = c
    THEN CHOOSE k \in 1..Len(CollationOrder) : CollationOrder[k] = c
    ELSE 0

\* a.localeCompare(b) for lower-cased names: negative, zero or positive.
RECURSIVE LocaleCompare(_, _)
LocaleCompare(a, b) ==
    IF a = <<>> /\ b = <<>> THEN 0
    ELSE IF a = <<>> THEN -1
    ELSE IF b = <<>> THEN 1
    ELSE IF Rank(a[1]) < Rank(b[1]) THEN -1
    ELSE IF Rank(a[1]) > Rank(b[1]) THEN 1
    ELSE LocaleCompare(Tail(a), Tail(b))

\* A TypeError thrown by reading a property of undefined or null.
TypeError == <<"TypeError">>

\* ------------------------------------------------------------------------
\* The classification rules (mapping)
\* ------------------------------------------------------------------------

singleFiles ==
    << [dir |-> <<"/","c","l","a","s","s","e","s","/">>, ext |-> <<".","c","l","s">>, type |-> <<"A","p","e","x","C","l","a","s","s">>],
       [dir |-> <<"/","t","r","i","g","g","e","r","s","/">>, ext |-> <<".","t","r","i","g","g","e","r">>, type |-> <<"A","p","e","x","T","r","i","g","g","e","r">>],
       [dir |-> <<"/","c","u","s","t","o","m","M","e","t","a","d","a","t","a","/">>, ext |-> <<".","m","d","-","m","e","t","a",".","x","m","l">>, type |-> <<"C","u","s","t","o","m","M","e","t","a","d","a","t","a">>],
       [dir |-> <<"/","f","l","e","x","i","p","a","g","e","s","/">>, ext |-> <<".","f","l","e","x","i","p","a","g","e","-","m","e","t","a",".","x","m","l">>, type |-> <<"F","l","e","x","i","P","a","g","e">>],
       [dir |-> <<"/","o","b","j","e","c","t","s","/">>, ext |-> <<".","o","b","j","e","c","t","-","m","e","t","a",".","x","m","l">>, type |-> <<"C","u","s","t","o","m","O","b","j","e","c","t">>],
       [dir |-> <<"/","l","a","y","o","u","t","s","/">>, ext |-> <<".","l","a","y","o","u","t","-","m","e","t","a",".","x","m","l">>, type |-> <<"L","a","y","o","u","t">>],
       [dir |-> <<"/","p","e","r","m","i","s","s","i","o","n","s","e","t","s","/">>, ext |-> <<".","p","e","r","m","i","s","s","i","o","n","s","e","t","-","m","e","t","a",".","x","m","l">>, type |-> <<"P","e","r","m","i","s","s","i","o","n","S","e","t">>],
       [dir |-> <<"/","r","e","p","o","r","t","T","y","p","e","s","/">>, ext |-> <<".","r","e","p","o","r","t","T","y","p","e","-","m","e","t","a",".","x","m","l">>, type |-> <<"R","e","p","o","r","t","T","y","p","e">>],
       [dir |-> <<"/","f","l","o","w","s","/">>, ext |-> <<".","f","l","o","w","-","m","e","t","a",".","x","m","l">>, type |-> <<"F","l","o","w">>] >>

bundleTypes ==
    << [dir |-> <<"/","l","w","c","/">>, bundle |-> <<"l","w","c">>, type |-> <<"L","i","g","h","t","n","i","n","g","C","o","m","p","o","n","e","n","t","B","u","n","d","l","e">>],
       [dir |-> <<"/","a","u","r","a","/">>, bundle |-> <<"a","u","r","a">>, type |-> <<"A","u","r","a","D","e","f","i","n","i","t","i","o","n","B","u","n","d","l","e">>] >>

objectChildren ==
    << [dir |-> <<"/","f","i","e","l","d","s","/">>, ext |-> <<".","f","i","e","l","d","-","m","e","t","a",".","x","m","l">>, type |-> <<"C","u","s","t","o","m","F","i","e","l","d">>],
       [dir |-> <<"/","f","i","e","l","d","S","e","t","s","/">>, ext |-> <<".","f","i","e","l","d","S","e","t","-","m","e","t","a",".","x","m","l">>, type |-> <<"F","i","e","l","d","S","e","t">>],
       [dir |-> <<"/","v","a","l","i","d","a","t","i","o","n","R","u","l","e","s","/">>, ext |-> <<".","v","a","l","i","d","a","t","i","o","n","R","u","l","e","-","m","e","t","a",".","x","m","l">>, type |-> <<"V","a","l","i","d","a","t","i","o","n","R","u","l","e">>],
       [dir |-> <<"/","w","e","b","L","i","n","k","s","/">>, ext |-> <<".","w","e","b","L","i","n","k","-","m","e","t","a",".","x","m","l">>, type |-> <<"W","e","b","L","i","n","k">>],
       [dir |-> <<"/","l","i","s","t","V","i","e","w","s","/">>, ext |-> <<".","l","i","s","t","V","i","e","w","-","m","e","t","a",".","x","m","l">>, type |-> <<"L","i","s","t","V","i","e","w">>] >>

folderBased ==
    << [dir |-> <<"/","d","a","s","h","b","o","a","r","d","s","/">>, ext |-> <<".","d","a","s","h","b","o","a","r","d","-","m","e","t","a",".","x","m","l">>, type |-> <<"D","a","s","h","b","o","a","r","d">>],
       [dir |-> <<"/","r","e","p","o","r","t","s","/">>, ext |-> <<".","r","e","p","o","r","t","-","m","e","t","a",".","x","m","l">>, type |-> <<"R","e","p","o","r","t">>] >>

\* ------------------------------------------------------------------------
\* Classification: mapToMetadata and its name extractors
\* ------------------------------------------------------------------------

\* The null that mapToMetadata returns for a path no rule matches.
NoRecord == [type |-> Null, name |-> Null]

\* The outcome of a mapToMetadata call that throws a TypeError.
ThrownRecord == [type |-> TypeError, name |-> TypeError]

\* The rule loops without their early return: the last matching rule of a
\* table wins.
FirstMatching_LastWins(rules, file, withExt) ==
    LET hits == {i \in 1..Len(rules) :
                    /\ Includes(file, rules[i].dir)
                    /\ withExt => EndsWith(file, rules[i].ext)}
    IN IF hits = {} THEN 0 ELSE CHOOSE i \in hits : \A j \in hits : i >= j

\* The index of the first rule of a table that matches the path, or 0: the
\* `for (const r of table) if (...) return` loops.  The single-file, object
\* and folder rules test the marker and the extension, the bundle rules the
\* marker alone.
FirstMatching(rules, file, withExt) ==
    LET hits == {i \in 1..Len(rules) :
                    /\ Includes(file, rules[i].dir)
                    /\ withExt => EndsWith(file, rules[i].ext)}
    IN IF hits = {} THEN 0 ELSE CHOOSE i \in hits : \A j \in hits : i <= j

\* extractFolderMemberName: the segments from the fifth on, the last one
\* stripped of its meta suffix.  With fewer than five segments the last
\* element of the empty slice is undefined and .replace throws.
extractFolderMemberName(file) ==
    LET all == Split(file, <<"/">>)
        target == SubSeq(all, 5, Len(all))
    IN IF target = <<>> THEN TypeError
       ELSE Join([target EXCEPT ![Len(target)] = StripMetaSuffix(target[Len(target)])],
                 <<"/">>)

\* extractObjectMemberName: "<Obj>.<member>" from the text after the first
\* "/objects/"; null without it, a TypeError without a third segment.
extractObjectMemberName(fullPath) ==
    LET afterObjects == JsAt(Split(fullPath, <<"/","o","b","j","e","c","t","s","/">>), 1)
    IN IF ~Truthy(afterObjects) THEN Null
       ELSE LET parts == Split(afterObjects, <<"/">>)
                objectName == JsAt(parts, 0)
                fileName == JsAt(parts, 2)
            IN IF fileName = Undefined THEN TypeError
               ELSE ToStr(objectName) \o <<".">> \o StripMetaSuffix(fileName)

\* getName of mapToMetadata: parts.pop().replace(suffix, "").
getName(parts, suffix) == ReplaceFirst(parts[Len(parts)], suffix, <<>>)

\* getBundle of mapToMetadata: parts[parts.indexOf(folder) + 1].
getBundle(parts, folder) == JsAt(parts, ArrayIndexOf(parts, folder) + 1)

\* The static-resource branch of mapToMetadata.
staticResourceName(parts) ==
    LET seg == JsAt(parts, ArrayIndexOf(parts, <<"s","t","a","t","i","c","r","e","s","o","u","r","c","e","s">>) + 1)
    IN IF seg = Undefined THEN TypeError
       ELSE JsAt(Split(seg, <<".">>), 0)

NameRecord(type, name) ==
    IF name = TypeError THEN ThrownRecord ELSE [type |-> type, name |-> name]

mapToMetadata(file) ==
    LET parts == Split(file, <<"/">>)
        s == FirstMatching(singleFiles, file, TRUE)
        b == FirstMatching(bundleTypes, file, FALSE)
        o == FirstMatching(objectChildren, file, TRUE)
        f == FirstMatching(folderBased, file, TRUE)
    IN IF s # 0 THEN NameRecord(singleFiles[s].type, getName(parts, singleFiles[s].ext))
       ELSE IF b # 0 THEN NameRecord(bundleTypes[b].type, getBundle(parts, bundleTypes[b].bundle))
       ELSE IF o # 0 THEN NameRecord(objectChildren[o].type, extractObjectMemberName(file))
       ELSE IF f # 0 THEN NameRecord(folderBased[f].type, extractFolderMemberName(file))
       ELSE IF Includes(file, <<"/","s","t","a","t","i","c","r","e","s","o","u","r","c","e","s","/">>)
            THEN NameRecord(<<"S","t","a","t","i","c","R","e","s","o","u","r","c","e">>, staticResourceName(parts))
       ELSE NoRecord

\* ------------------------------------------------------------------------
\* Aggregation and serialization: groupMetadata, generatePackageXML
\* ------------------------------------------------------------------------

\* Set.prototype.add that forgets the names added before.
SetAdd_KeepsLast(set, x) == << x >>

\* Set.prototype.add on a set kept in insertion order.
SetAdd(set, x) == IF ArrayIncludes(set, x) THEN set ELSE Append(set, x)

\* The comparator of groupMetadata.
CompareNames(a, b) == LocaleCompare(ToLowerCase(a), ToLowerCase(b))

\* An insertion that does not compare: the names stay in insertion order.
InsertSorted_Unsorted(sorted, x) == Append(sorted, x)

\* Array.prototype.sort is stable: x goes behind every element that does
\* not compare greater than it.
RECURSIVE InsertSorted(_, _)
InsertSorted(sorted, x) ==
    IF sorted = <<>> THEN <<x>>
    ELSE IF CompareNames(sorted[1], x) > 0 THEN <<x>> \o sorted
    ELSE <<sorted[1]>> \o InsertSorted(Tail(sorted), x)

RECURSIVE SortNames(_)
SortNames(names) ==
    IF names = <<>> THEN <<>>
    ELSE InsertSorted(SortNames(SubSeq(names, 1, Len(names) - 1)), names[Len(names)])

\* The first loop of groupMetadata: one insertion-ordered set of names per
\* type, the types in the order of their first record.
RECURSIVE CollectByType(_, _)
CollectByType(grouped, items) ==
    IF items = <<>> THEN grouped
    ELSE LET i == items[1]
             at == {k \in 1..Len(grouped) : grouped[k].type = i.type}
             next == IF at = {}
                     THEN Append(grouped, [type |-> i.type, names |-> <<i.name>>])
                     ELSE LET k == CHOOSE k \in at : TRUE
                          IN [grouped EXCEPT ![k].names = SetAdd(@, i.name)]
         IN CollectByType(next, Tail(items))

\* The comparator reads a.toLowerCase(): sorting two or more names of which
\* one is null throws a TypeError.
SortThrows(names) == Len(names) >= 2 /\ ArrayIncludes(names, Null)

\* groupMetadata throws when one of its sorts does.
groupMetadataThrows(items) ==
    LET collected == CollectByType(<<>>, items)
    IN \E k \in 1..Len(collected) : SortThrows(collected[k].names)

\* groupMetadata: the grouping as a sequence of [type, names] in key order.
groupMetadata(items) ==
    LET collected == CollectByType(<<>>, items)
    IN [k \in 1..Len(collected) |->
           [type |-> collected[k].type, names |-> SortNames(collected[k].names)]]

XML_HEADER == <<"<","?","x","m","l"," ","v","e","r","s","i","o","n","=","\"","1",".","0","\""," ","e","n","c","o","d","i","n","g","=","\"","U","T","F","-","8","\"","?",">","\n">>

PACKAGE_OPEN_TAG == <<"<","P","a","c","k","a","g","e"," ","x","m","l","n","s","=","\"","h","t","t","p",":","/","/","s","o","a","p",".","s","f","o","r","c","e",".","c","o","m","/","2","0","0","6","/","0","4","/","m","e","t","a","d","a","t","a","\"",">">>

RECURSIVE MembersXML(_)
MembersXML(names) ==
    IF names = <<>> THEN <<>>
    ELSE <<" "," "," "," ","<","m","e","m","b","e","r","s",">">> \o ToStr(names[1]) \o <<"<","/","m","e","m","b","e","r","s",">","\n">>
         \o MembersXML(Tail(names))

RECURSIVE TypesXML(_)
TypesXML(grouped) ==
    IF grouped = <<>> THEN <<>>
    ELSE <<" "," ","<","t","y","p","e","s",">","\n">> \o MembersXML(grouped[1].names)
         \o <<" "," "," "," ","<","n","a","m","e",">">> \o grouped[1].type \o <<"<","/","n","a","m","e",">","\n">>
         \o <<" "," ","<","/","t","y","p","e","s",">","\n","\n">> \o TypesXML(Tail(grouped))

generatePackageXML(grouped) ==
    XML_HEADER \o PACKAGE_OPEN_TAG \o <<"\n">> \o TypesXML(grouped)
    \o <<" "," ","<","v","e","r","s","i","o","n",">","6","3",".","0","<","/","v","e","r","s","i","o","n",">","\n">> \o <<"<","/","P","a","c","k","a","g","e",">","\n">>

\* ------------------------------------------------------------------------
\* The command line
\* ------------------------------------------------------------------------

HELP_FLAG_SHORT == <<"-","h">>

HELP_FLAG == <<"-","-","h","e","l","p">>

BRANCH_FLAG_SHORT == <<"-","b">>

BRANCH_FLAG == <<"-","-","b","r","a","n","c","h">>

RETRIEVE_ONLY_FLAG_SHORT == <<"-","r">>

RETRIEVE_ONLY_FLAG == <<"-","-","r","e","t","r","i","e","v","e","-","o","n","l","y">>

DEPLOY_FLAG_SHORT == <<"-","d">>

DEPLOY_FLAG == <<"-","-","d","e","p","l","o","y">>

supportedFlags ==
    << HELP_FLAG, HELP_FLAG_SHORT, BRANCH_FLAG, BRANCH_FLAG_SHORT,
       RETRIEVE_ONLY_FLAG, RETRIEVE_ONLY_FLAG_SHORT, DEPLOY_FLAG, DEPLOY_FLAG_SHORT >>

\* getArg of parseArgs: the argument behind the first occurrence of flag.
getArg(argv, flag) ==
    LET idx == ArrayIndexOf(argv, flag)
    IN IF idx # -1 THEN JsAt(argv, idx + 1) ELSE Null

isHelpFlag(argv) == ArrayIncludes(argv, HELP_FLAG) \/ ArrayIncludes(argv, HELP_FLAG_SHORT)

\* parseArgs without its check for unsupported flags.
allUnsupported_Never(argv) == FALSE

\* "Check for unsupported flags": help is shown only when there are dashed
\* arguments and every one of them is unsupported.
allUnsupported(argv) ==
    LET inputFlags == SelectSeq(argv, LAMBDA a : StartsWith(a, <<"-">>))
    IN /\ Len(inputFlags) # 0
       /\ \A i \in 1..Len(inputFlags) : ~ArrayIncludes(supportedFlags, inputFlags[i])

isBranchFlag(argv) ==
    ArrayIncludes(argv, BRANCH_FLAG) \/ ArrayIncludes(argv, BRANCH_FLAG_SHORT)

\* getArg(BRANCH_FLAG) || getArg(BRANCH_FLAG_SHORT)
branchNameOf(argv) ==
    IF Truthy(getArg(argv, BRANCH_FLAG)) THEN getArg(argv, BRANCH_FLAG)
    ELSE getArg(argv, BRANCH_FLAG_SHORT)

isDeployFlagOf(argv) ==
    ArrayIncludes(argv, DEPLOY_FLAG) \/ ArrayIncludes(argv, DEPLOY_FLAG_SHORT)

isRetrieveFlagOf(argv) ==
    ArrayIncludes(argv, RETRIEVE_ONLY_FLAG) \/ ArrayIncludes(argv, RETRIEVE_ONLY_FLAG_SHORT)

\* ------------------------------------------------------------------------
\* Bounds and the inputs of the model
\* ------------------------------------------------------------------------

\* The longest argument list.
MaxArgs == 4

\* The arguments a command line is made of: flags, an unsupported flag, a
\* branch name and a change-set name.
ArgAtoms ==
    { BRANCH_FLAG_SHORT, BRANCH_FLAG, DEPLOY_FLAG_SHORT, RETRIEVE_ONLY_FLAG_SHORT,
      HELP_FLAG_SHORT, <<"-","x">>, <<"d","e","v">>, <<"C","S">> }

ArgLists == UNION {[1..n -> ArgAtoms] : n \in 0..MaxArgs}

\* A class with its meta file.
FooFiles ==
    << <<"f","o","r","c","e","-","a","p","p","/","m","a","i","n","/","d","e","f","a","u","l","t","/","c","l","a","s","s","e","s","/","F","o","o",".","c","l","s">>,
       <<"f","o","r","c","e","-","a","p","p","/","m","a","i","n","/","d","e","f","a","u","l","t","/","c","l","a","s","s","e","s","/","F","o","o",".","c","l","s","-","m","e","t","a",".","x","m","l">> >>

\* The answers of `git diff --name-only`: nothing changed; a class with its
\* meta file; a report outside force-app/main/default.
ChangedFileLists ==
    { <<>>, FooFiles, << <<"s","r","c","/","r","e","p","o","r","t","s","/","R",".","r","e","p","o","r","t","-","m","e","t","a",".","x","m","l">> >> }

\* The longest path, in segments.
MaxSegs == 4

\* The segments the classified paths are made of: a package directory, the
\* marker folders of ApexClass, of the two bundle types and of the static
\* resources, a component folder, and files with and without the extension
\* of a rule.
SegAtoms ==
    { <<"f","o","r","c","e","-","a","p","p">>, <<"c","l","a","s","s","e","s">>, <<"l","w","c">>, <<"a","u","r","a">>, <<"c","o","m","p">>,
      <<"x",".","j","s">>, <<"F","o","o",".","c","l","s">>, <<"A",".","c","l","s","B",".","c","l","s">>, <<"s","t","a","t","i","c","r","e","s","o","u","r","c","e","s">> }

\* For every single-file rule a file of that rule, once with a plain name
\* and once with a name that holds the text of the extension.
RulePaths ==
    { <<"f","o","r","c","e","-","a","p","p","/","m","a","i","n","/","d","e","f","a","u","l","t">> \o singleFiles[k].dir \o name \o singleFiles[k].ext :
        k \in 1..Len(singleFiles),
        name \in {<<"F","o","o">>} \cup {<<"A">> \o singleFiles[j].ext \o <<"B">> : j \in 1..Len(singleFiles)} }

\* Every sequence of one to MaxSegs of the given segments.
SegLists(atoms) == UNION {[1..n -> atoms] : n \in 1..MaxSegs}

\* The segments in front of an objects folder: a package directory, and
\* folders that carry the name of a marker.
ObjectPrefixAtoms == { <<"f","o","r","c","e","-","a","p","p">>, <<"o","b","j","e","c","t","s">>, <<"l","w","c">> }

\* The field files of objects: <prefix>/objects/<Obj>/fields/<Field>.field-meta.xml.
ObjectPaths ==
    { Join(prefix \o << <<"o","b","j","e","c","t","s">>, obj, <<"f","i","e","l","d","s">>, fld \o <<".","f","i","e","l","d","-","m","e","t","a",".","x","m","l">> >>, <<"/">>) :
        prefix \in SegLists(ObjectPrefixAtoms),
        obj \in { <<"A","c","c","t">>, <<"O","r","d","e","r","_","_","c">> },
        fld \in { <<"F">>, <<"T","a","x",".","R","a","t","e","_","_","c">> } }

\* The segments of paths around an object child that need not have the
\* shape objects/<Obj>/<childFolder>/<file>.
ChildSegAtoms ==
    { <<"o","b","j","e","c","t","s">>, <<"A","c","c","t">>, <<"f","i","e","l","d","s">>, <<"l","w","c">>, <<"s","t","a","t","i","c","r","e","s","o","u","r","c","e","s">>,
      <<"F",".","f","i","e","l","d","-","m","e","t","a",".","x","m","l">> }

\* The segments of paths around a report.
FolderSegAtoms ==
    { <<"p">>, <<"r","e","p","o","r","t","s">>, <<"l","w","c">>, <<"s","t","a","t","i","c","r","e","s","o","u","r","c","e","s">>, <<"R",".","r","e","p","o","r","t","-","m","e","t","a",".","x","m","l">> }

\* The name of a marker directory: "/reports/" without its slashes.
MarkerName(dir) == SubSeq(dir, 2, Len(dir) - 1)

\* The files of the folder-based types: zero to MaxSegs segments in front
\* of the marker directory, zero to two sub-folders below it.
FolderPaths ==
    { Join(prefix \o << MarkerName(folderBased[k].dir) >> \o subs
               \o << <<"R">> \o folderBased[k].ext >>, <<"/">>) :
        prefix \in {<<>>} \cup SegLists({ <<"p">> }),
        k \in 1..Len(folderBased),
        subs \in { <<>>, << <<"s","u","b">> >>, << <<"s","u","b">>, <<"d","e","e","p">> >> } }

\* The paths handed to mapToMetadata.
Paths ==
    { Join(segs, <<"/">>) :
        segs \in SegLists(SegAtoms) \cup SegLists(ChildSegAtoms) \cup SegLists(FolderSegAtoms) }
    \cup RulePaths \cup ObjectPaths \cup FolderPaths

\* A missing file.
NoFile == <<"ENOENT">>

\* The package.xml the platform puts into the retrieved archive: one with
\* the namespace tag the tool looks for; one that holds the tag a second
\* time, in a comment; one whose tag is written with single quotes; or none
\* at all.
RetrievedPackageXml ==
    { XML_HEADER \o PACKAGE_OPEN_TAG \o <<"\n"," "," "," "," ","<","v","e","r","s","i","o","n",">","6","3",".","0","<","/","v","e","r","s","i","o","n",">","\n","<","/","P","a","c","k","a","g","e",">","\n">>,
      XML_HEADER \o PACKAGE_OPEN_TAG \o <<"\n"," "," "," "," ","<","!","-","-"," ">> \o PACKAGE_OPEN_TAG
          \o <<" ","-","-",">","\n"," "," "," "," ","<","v","e","r","s","i","o","n",">","6","3",".","0","<","/","v","e","r","s","i","o","n",">","\n","<","/","P","a","c","k","a","g","e",">","\n">>,
      XML_HEADER \o <<"<","P","a","c","k","a","g","e"," ","x","m","l","n","s","=","'","h","t","t","p",":","/","/","s","o","a","p",".","s","f","o","r","c","e",".","c","o","m","/","2","0","0","6","/","0","4","/","m","e","t","a","d","a","t","a","'",">">>
          \o <<"\n"," "," "," "," ","<","v","e","r","s","i","o","n",">","6","3",".","0","<","/","v","e","r","s","i","o","n",">","\n","<","/","P","a","c","k","a","g","e",">","\n">>,
      NoFile }

\* ------------------------------------------------------------------------
\* State
\* ------------------------------------------------------------------------

VARIABLES
    args,           \* process.argv.slice(2)
    pc,             \* where the process is
    exitCode,       \* the exit code, -1 while the process runs
    out,            \* the lines written to the console
    trace,          \* history: the operations invoked and how they ended
    fs,             \* the files of the tool's directory
    branchName,     \* parseArgs: branchName
    isDeployFlag,   \* parseArgs: isDeployFlag
    isRetrieveFlag, \* parseArgs: isRetrieveFlag
    changeSetName,  \* updateChangeSet: changeSetName
    files,          \* generateDiffPackage: files
    file,           \* a path handed to mapToMetadata
    record,         \* what mapToMetadata returned for it
    items,          \* the records handed to groupMetadata
    grouped,        \* what groupMetadata returned for them
    xml             \* what generatePackageXML returned for the grouping

vars ==
    << args, pc, exitCode, out, trace, fs, branchName, isDeployFlag,
       isRetrieveFlag, changeSetName, files, file, record, items, grouped, xml >>

\* The value of a local that has not been assigned.
Unset == <<"unset">>

\* The same for a local that holds a list of strings.
UnsetList == << Unset >>

\* A disk without any file of the tool.
CleanDisk ==
    [ manifest   |-> NoFile,    \* package-diff.xml
      folder     |-> FALSE,     \* retrievedSource/
      zip        |-> NoFile,    \* retrievedSource/unpackaged.zip: its package.xml
      unpackaged |-> FALSE,     \* retrievedSource/unpackaged/
      packageXml |-> NoFile,    \* retrievedSource/unpackaged/package.xml
      finalZip   |-> "absent",  \* retrievedSource/final.zip
      project    |-> "committed" ] \* the sources of the project beside the tool

\* What a run that ended without cleaning up left behind.
LeftoverDisk ==
    [ CleanDisk EXCEPT !.manifest = generatePackageXML(<<>>),
                       !.folder = TRUE,
                       !.finalZip = "stale" ]

Log(line) == [stream |-> "stdout", line |-> line]

Err(line) == [stream |-> "stderr", line |-> line]

Ev(op, ev) == [op |-> op, ev |-> ev]

\* deleteSources without its second removal: package-diff.xml stays.
deleteSources_KeepsManifest(disk) ==
    IF disk.folder
    THEN [disk EXCEPT !.folder = FALSE, !.zip = NoFile, !.unpackaged = FALSE,
                      !.packageXml = NoFile, !.finalZip = "absent"]
    ELSE disk

\* deleteSources: removes retrievedSource/ with all it holds and
\* package-diff.xml, each only when it exists.
deleteSources(disk) ==
    LET d1 == IF disk.folder
              THEN [disk EXCEPT !.folder = FALSE, !.zip = NoFile, !.unpackaged = FALSE,
                                !.packageXml = NoFile, !.finalZip = "absent"]
              ELSE disk
    IN IF d1.manifest # NoFile THEN [d1 EXCEPT !.manifest = NoFile] ELSE d1

\* process.exit(code), and the end of the process by an uncaught exception.
Exit(code) == pc' = "exited" /\ exitCode' = code

parseLocals == << branchName, isDeployFlag, isRetrieveFlag >>

classifyVars == << file, record >>

groupVars == << items, grouped, xml >>

Init ==
    /\ args \in ArgLists
    /\ pc = "parseArgs"
    /\ exitCode = -1
    /\ out = <<>>
    /\ trace = <<>>
    /\ fs \in {CleanDisk, LeftoverDisk}
    /\ branchName = Unset
    /\ isDeployFlag = FALSE
    /\ isRetrieveFlag = FALSE
    /\ changeSetName = Unset
    /\ files = UnsetList
    /\ file = Unset
    /\ record = [type |-> Unset, name |-> Unset]
    /\ items = <<>>
    /\ grouped = <<>>
    /\ xml = Unset

\* ------------------------------------------------------------------------
\* parseArgs
\* ------------------------------------------------------------------------

\* No argument, a help flag, or only unsupported flags: showHelp, which
\* ends the process with code 0.
ParseArgsHelp ==
    /\ pc = "parseArgs"
    /\ args = <<>> \/ isHelpFlag(args) \/ allUnsupported(args)
    /\ out' = Append(out, Log("help"))
    /\ trace' = Append(trace, Ev("showHelp", "ok"))
    /\ Exit(0)
    /\ UNCHANGED << args, fs, parseLocals, changeSetName, files, classifyVars, groupVars >>

\* No branch flag: the usage error.
ParseArgsMissingBranch ==
    /\ pc = "parseArgs"
    /\ ~(args = <<>> \/ isHelpFlag(args) \/ allUnsupported(args))
    /\ ~isBranchFlag(args)
    /\ out' = Append(out, Err("Missing required parameter: --branch <branch>"))
    /\ Exit(1)
    /\ UNCHANGED << args, trace, fs, parseLocals, changeSetName, files, classifyVars, groupVars >>

\* Otherwise the flags are read and generateDiffPackage is called.
ParseArgsRun ==
    /\ pc = "parseArgs"
    /\ ~(args = <<>> \/ isHelpFlag(args) \/ allUnsupported(args))
    /\ isBranchFlag(args)
    /\ branchName' = branchNameOf(args)
    /\ isDeployFlag' = isDeployFlagOf(args)
    /\ isRetrieveFlag' = isRetrieveFlagOf(args)
    /\ pc' = "generateDiffPackage"
    /\ UNCHANGED << args, exitCode, out, trace, fs, changeSetName, files, classifyVars, groupVars >>

\* ------------------------------------------------------------------------
\* generateDiffPackage
\* ------------------------------------------------------------------------

\* files.map(mapToMetadata): the records of the paths, null included.
mapFiles(fileList) == [i \in 1..Len(fileList) |-> mapToMetadata(fileList[i])]

\* One of the mapToMetadata calls throws.
mapFilesThrows(fileList) ==
    \E i \in 1..Len(fileList) : mapToMetadata(fileList[i]) = ThrownRecord

\* metadataOf with the filter(Boolean) forgotten: the nulls of the paths no
\* rule matches stay in the list.
metadataOf_NoFilter(fileList) == mapFiles(fileList)

\* files.map(mapToMetadata).filter(Boolean)
metadataOf(fileList) == SelectSeq(mapFiles(fileList), LAMBDA r : r # NoRecord)

\* files.map(mapToMetadata).filter(Boolean), groupMetadata and
\* generatePackageXML: the text of the manifest, or TypeError when
\* classification or sorting throws.
buildManifest(fileList) ==
    IF mapFilesThrows(fileList) THEN TypeError
    ELSE IF groupMetadataThrows(metadataOf(fileList)) THEN TypeError
    ELSE generatePackageXML(groupMetadata(metadataOf(fileList)))

\* One of the two git commands fails (no repository, unknown branch):
\* execSync throws, nothing catches it, the process dies with code 1.
GenerateDiffPackageGitFails ==
    /\ pc = "generateDiffPackage"
    /\ \E failing \in {"git rev-parse", "git diff"} :
          trace' = trace \o
              (IF failing = "git rev-parse"
               THEN << Ev("git rev-parse", "fail") >>
               ELSE << Ev("git rev-parse", "ok"), Ev("git diff", "fail") >>)
    /\ out' = Append(out, Err("uncaught exception"))
    /\ Exit(1)
    /\ UNCHANGED << args, fs, parseLocals, changeSetName, files, classifyVars, groupVars >>

\* generateDiffPackage with the process.exit(0) of the empty case forgotten:
\* the empty list is classified and written like any other.
GenerateDiffPackageNoChanges_NoExit ==
    /\ pc = "generateDiffPackage"
    /\ files' = <<>>
    /\ fs' = [fs EXCEPT !.manifest = buildManifest(<<>>)]
    /\ trace' = trace \o << Ev("git rev-parse", "ok"), Ev("git diff", "ok"),
                            Ev("mapToMetadata", "ok"), Ev("groupMetadata", "ok"),
                            Ev("generatePackageXML", "ok"), Ev("writeManifest", "ok") >>
    /\ out' = out \o << Log("Comparing"), Log("No changes detected"),
                        Log("package-diff.xml created") >>
    /\ pc' = "selectMode"
    /\ UNCHANGED << args, exitCode, parseLocals, changeSetName, classifyVars, groupVars >>

\* Nothing changed: "No changes detected" and process.exit(0).
GenerateDiffPackageNoChanges ==
    /\ pc = "generateDiffPackage"
    /\ files' = <<>>
    /\ trace' = trace \o << Ev("git rev-parse", "ok"), Ev("git diff", "ok") >>
    /\ out' = out \o << Log("Comparing"), Log("No changes detected") >>
    /\ Exit(0)
    /\ UNCHANGED << args, fs, parseLocals, changeSetName, classifyVars, groupVars >>

\* A changed path makes mapToMetadata or the sort of groupMetadata throw:
\* nothing is written and the process dies with code 1.
GenerateDiffPackageThrows ==
    /\ pc = "generateDiffPackage"
    /\ \E fileList \in ChangedFileLists :
          /\ fileList # <<>>
          /\ buildManifest(fileList) = TypeError
          /\ files' = fileList
          /\ trace' = trace \o << Ev("git rev-parse", "ok"), Ev("git diff", "ok") >>
                       \o (IF mapFilesThrows(fileList)
                           THEN << Ev("mapToMetadata", "fail") >>
                           ELSE << Ev("mapToMetadata", "ok"), Ev("groupMetadata", "fail") >>)
    /\ out' = out \o << Log("Comparing"), Err("uncaught exception") >>
    /\ Exit(1)
    /\ UNCHANGED << args, fs, parseLocals, changeSetName, classifyVars, groupVars >>

\* The changed paths are classified, grouped, serialized and written to
\* package-diff.xml; parseArgs goes on.
GenerateDiffPackageWrites ==
    /\ pc = "generateDiffPackage"
    /\ \E fileList \in ChangedFileLists :
          /\ fileList # <<>>
          /\ buildManifest(fileList) # TypeError
          /\ files' = fileList
          /\ fs' = [fs EXCEPT !.manifest = buildManifest(fileList)]
    /\ trace' = trace \o << Ev("git rev-parse", "ok"), Ev("git diff", "ok"),
                            Ev("mapToMetadata", "ok"), Ev("groupMetadata", "ok"),
                            Ev("generatePackageXML", "ok"), Ev("writeManifest", "ok") >>
    /\ out' = out \o << Log("Comparing"), Log("package-diff.xml created") >>
    /\ pc' = "selectMode"
    /\ UNCHANGED << args, exitCode, parseLocals, changeSetName, classifyVars, groupVars >>

\* ------------------------------------------------------------------------
\* parseArgs, after generateDiffPackage: the choice of the mode
\* ------------------------------------------------------------------------

\* if (isDeployFlag) updateChangeSet(branchName)
SelectDeploy ==
    /\ pc = "selectMode"
    /\ isDeployFlag
    /\ changeSetName' = branchName
    /\ pc' = "updateChangeSet"
    /\ UNCHANGED << args, exitCode, out, trace, fs, parseLocals, files, classifyVars, groupVars >>

\* The retrieve-only branch as an if of its own instead of an else if: it
\* is open to a run with the deploy flag as well.
SelectRetrieveOnly_AlsoWithDeploy ==
    /\ pc = "selectMode"
    /\ isRetrieveFlag
    /\ pc' = "retrieveOnly"
    /\ UNCHANGED << args, exitCode, out, trace, fs, parseLocals, changeSetName, files,
                    classifyVars, groupVars >>

\* else if (isRetrieveFlag) retrieveMetadata(true)
SelectRetrieveOnly ==
    /\ pc = "selectMode"
    /\ ~isDeployFlag /\ isRetrieveFlag
    /\ pc' = "retrieveOnly"
    /\ UNCHANGED << args, exitCode, out, trace, fs, parseLocals, changeSetName, files,
                    classifyVars, groupVars >>

\* Neither flag: parseArgs returns.
SelectNone ==
    /\ pc = "selectMode"
    /\ ~isDeployFlag /\ ~isRetrieveFlag
    /\ pc' = "idle"
    /\ UNCHANGED << args, exitCode, out, trace, fs, parseLocals, changeSetName, files,
                    classifyVars, groupVars >>

\* ------------------------------------------------------------------------
\* updateChangeSet: the deploy pipeline
\* ------------------------------------------------------------------------

\* The try block with deployPackage called before zipPackage.
TryBlock_DeployBeforeZip ==
    << "retrieveMetadata", "extractPackage", "updatePackageXML", "deployPackage",
       "zipPackage" >>

\* The statements of the try block, in their order.
TryBlock ==
    << "retrieveMetadata", "extractPackage", "updatePackageXML", "zipPackage",
       "deployPackage" >>

\* Where the try block goes on when a stage has returned (or, for the two
\* awaited stages, when its promise has resolved).
StageAfter(stage) ==
    LET i == CHOOSE k \in 1..Len(TryBlock) : TryBlock[k] = stage
    IN IF i < Len(TryBlock) THEN TryBlock[i + 1] ELSE "succeeded"

\* if (!changeSetName) { console.error(...); process.exit(1) }
UpdateChangeSetMissingName ==
    /\ pc = "updateChangeSet"
    /\ ~Truthy(changeSetName)
    /\ out' = Append(out, Err("Missing required parameter: --deploy <name>"))
    /\ trace' = Append(trace, Ev("updateChangeSet", "fail"))
    /\ Exit(1)
    /\ UNCHANGED << args, fs, parseLocals, changeSetName, files, classifyVars, groupVars >>

\* Otherwise the try block is entered.
UpdateChangeSetEnter ==
    /\ pc = "updateChangeSet"
    /\ Truthy(changeSetName)
    /\ trace' = Append(trace, Ev("updateChangeSet", "call"))
    /\ pc' = TryBlock[1]
    /\ UNCHANGED << args, exitCode, out, fs, parseLocals, changeSetName, files,
                    classifyVars, groupVars >>

\* retrieveMetadata(), pipeline form: `sf project retrieve start
\* --target-metadata-dir retrievedSource` leaves retrievedSource/unpackaged.zip.
RetrieveMetadataOk ==
    /\ pc = "retrieveMetadata"
    /\ \E doc \in RetrievedPackageXml :
          fs' = [fs EXCEPT !.folder = TRUE, !.zip = doc]
    /\ trace' = trace \o << Ev("retrieveMetadata", "call"), Ev("sf retrieve", "ok"),
                            Ev("retrieveMetadata", "ok") >>
    /\ out' = out \o << Log("Retrieving metadata..."), Log("Metadata retrieved") >>
    /\ pc' = StageAfter("retrieveMetadata")
    /\ UNCHANGED << args, exitCode, parseLocals, changeSetName, files, classifyVars, groupVars >>

\* retrieveMetadata(true), retrieve-only form: the retrieval goes into the
\* project and deleteSources follows.
RetrieveOnlyOk ==
    /\ pc = "retrieveOnly"
    /\ fs' = deleteSources([fs EXCEPT !.project = "retrieved"])
    /\ trace' = trace \o << Ev("retrieveMetadata", "call"), Ev("sf retrieve", "ok"),
                            Ev("deleteSources", "ok"), Ev("retrieveMetadata", "ok") >>
    /\ out' = out \o << Log("Retrieving metadata..."), Log("Metadata retrieved") >>
    /\ pc' = "idle"
    /\ UNCHANGED << args, exitCode, parseLocals, changeSetName, files, classifyVars, groupVars >>

\* retrieveMetadata with the process.exit(1) of its catch forgotten: the
\* failure is printed and the caller goes on.
RetrieveMetadataFails_NoExit ==
    /\ pc \in {"retrieveMetadata", "retrieveOnly"}
    /\ trace' = trace \o << Ev("retrieveMetadata", "call"), Ev("sf retrieve", "fail"),
                            Ev("retrieveMetadata", "fail") >>
    /\ out' = out \o << Log("Retrieving metadata..."), Err("Retrieval failed") >>
    /\ pc' = IF pc = "retrieveOnly" THEN "idle" ELSE "extractPackage"
    /\ UNCHANGED << args, exitCode, fs, parseLocals, changeSetName, files, classifyVars, groupVars >>

\* The retrieval command exits non-zero: the catch of retrieveMetadata
\* prints "Retrieval failed" and calls process.exit(1).
RetrieveMetadataFails ==
    /\ pc \in {"retrieveMetadata", "retrieveOnly"}
    /\ trace' = trace \o << Ev("retrieveMetadata", "call"), Ev("sf retrieve", "fail"),
                            Ev("retrieveMetadata", "fail") >>
    /\ out' = out \o << Log("Retrieving metadata..."), Err("Retrieval failed") >>
    /\ Exit(1)
    /\ UNCHANGED << args, fs, parseLocals, changeSetName, files, classifyVars, groupVars >>

\* extractPackage: the read stream of unpackaged.zip is piped into the
\* extractor; the promise is pending.
ExtractPackage ==
    /\ pc = "extractPackage"
    /\ trace' = Append(trace, Ev("extractPackage", "call"))
    /\ pc' = "extracting"
    /\ UNCHANGED << args, exitCode, out, fs, parseLocals, changeSetName, files,
                    classifyVars, groupVars >>

\* "close" of the extractor: the archive is unpacked, unpackaged.zip is
\* unlinked, the promise resolves.
ExtractClose ==
    /\ pc = "extracting"
    /\ fs' = [fs EXCEPT !.unpackaged = TRUE, !.packageXml = fs.zip, !.zip = NoFile]
    /\ trace' = Append(trace, Ev("extractPackage", "ok"))
    /\ out' = Append(out, Log("Zip extracted"))
    /\ pc' = StageAfter("extractPackage")
    /\ UNCHANGED << args, exitCode, parseLocals, changeSetName, files, classifyVars, groupVars >>

\* "error" of the extractor (a damaged archive): the promise rejects.
ExtractError ==
    /\ pc = "extracting"
    /\ trace' = Append(trace, Ev("extractPackage", "fail"))
    /\ pc' = "catch"
    /\ UNCHANGED << args, exitCode, out, fs, parseLocals, changeSetName, files,
                    classifyVars, groupVars >>

\* "error" of the read stream (the archive cannot be opened or read): the
\* listener sits on the extractor, not on the read stream, so the event is
\* an uncaught exception and the process dies with code 1.
ExtractReadError ==
    /\ pc = "extracting"
    /\ trace' = Append(trace, Ev("extractPackage", "fail"))
    /\ out' = Append(out, Err("uncaught exception"))
    /\ Exit(1)
    /\ UNCHANGED << args, fs, parseLocals, changeSetName, files, classifyVars, groupVars >>

\* The text updatePackageXML puts in place of the namespace tag.
fullNameTag(label) ==
    PACKAGE_OPEN_TAG \o <<"\n"," "," "," "," ","<","f","u","l","l","N","a","m","e",">">> \o ToStr(label) \o <<"<","/","f","u","l","l","N","a","m","e",">">>

\* updatePackageXML: package.xml is read, patched and written back.
UpdatePackageXMLOk ==
    /\ pc = "updatePackageXML"
    /\ fs.packageXml # NoFile
    /\ fs' = [fs EXCEPT !.packageXml =
                 ReplaceFirst(@, PACKAGE_OPEN_TAG, fullNameTag(changeSetName))]
    /\ trace' = trace \o << Ev("updatePackageXML", "call"), Ev("updatePackageXML", "ok") >>
    /\ out' = Append(out, Log("package.xml updated"))
    /\ pc' = StageAfter("updatePackageXML")
    /\ UNCHANGED << args, exitCode, parseLocals, changeSetName, files, classifyVars, groupVars >>

\* updatePackageXML: readFileSync throws when package.xml is not there.
UpdatePackageXMLThrows ==
    /\ pc = "updatePackageXML"
    /\ fs.packageXml = NoFile
    /\ trace' = trace \o << Ev("updatePackageXML", "call"), Ev("updatePackageXML", "fail") >>
    /\ pc' = "catch"
    /\ UNCHANGED << args, exitCode, out, fs, parseLocals, changeSetName, files,
                    classifyVars, groupVars >>

\* zipPackage: final.zip is opened for writing and the archiver started;
\* the promise is pending.
ZipPackage ==
    /\ pc = "zipPackage"
    /\ fs' = [fs EXCEPT !.finalZip = "partial"]
    /\ trace' = Append(trace, Ev("zipPackage", "call"))
    /\ pc' = "zipping"
    /\ UNCHANGED << args, exitCode, out, parseLocals, changeSetName, files, classifyVars, groupVars >>

\* "close" of the output stream: final.zip is complete, the promise resolves.
ZipClose ==
    /\ pc = "zipping"
    /\ fs' = [fs EXCEPT !.finalZip = "fresh"]
    /\ trace' = Append(trace, Ev("zipPackage", "ok"))
    /\ out' = Append(out, Log("ZIP created"))
    /\ pc' = StageAfter("zipPackage")
    /\ UNCHANGED << args, exitCode, parseLocals, changeSetName, files, classifyVars, groupVars >>

\* "error" of the archiver: the promise rejects.
ZipError ==
    /\ pc = "zipping"
    /\ trace' = Append(trace, Ev("zipPackage", "fail"))
    /\ pc' = "catch"
    /\ UNCHANGED << args, exitCode, out, fs, parseLocals, changeSetName, files,
                    classifyVars, groupVars >>

\* "error" of the output stream, which has no listener: an uncaught
\* exception, the process dies with code 1.
ZipOutputError ==
    /\ pc = "zipping"
    /\ trace' = Append(trace, Ev("zipPackage", "fail"))
    /\ out' = Append(out, Err("uncaught exception"))
    /\ Exit(1)
    /\ UNCHANGED << args, fs, parseLocals, changeSetName, files, classifyVars, groupVars >>

\* deployPackage: `sf project deploy start` exits with 0.
DeployPackageOk ==
    /\ pc = "deployPackage"
    /\ trace' = trace \o << Ev("deployPackage", "call"), Ev("sf deploy", "ok"),
                            Ev("deployPackage", "ok") >>
    /\ out' = out \o << Log("Deploying to the Org..."), Log("Deployment finished") >>
    /\ pc' = StageAfter("deployPackage")
    /\ UNCHANGED << args, exitCode, fs, parseLocals, changeSetName, files, classifyVars, groupVars >>

\* deployPackage: the command exits non-zero and execSync throws.
DeployPackageFails ==
    /\ pc = "deployPackage"
    /\ trace' = trace \o << Ev("deployPackage", "call"), Ev("sf deploy", "fail"),
                            Ev("deployPackage", "fail") >>
    /\ out' = Append(out, Log("Deploying to the Org..."))
    /\ pc' = "catch"
    /\ UNCHANGED << args, exitCode, fs, parseLocals, changeSetName, files, classifyVars, groupVars >>

\* The end of the try block.
UpdateChangeSetSucceeds ==
    /\ pc = "succeeded"
    /\ out' = Append(out, Log("Change set is updated successfully"))
    /\ pc' = "finally"
    /\ UNCHANGED << args, exitCode, trace, fs, parseLocals, changeSetName, files,
                    classifyVars, groupVars >>

\* catch (error) { console.error(...) }
UpdateChangeSetCatch ==
    /\ pc = "catch"
    /\ out' = Append(out, Err("Error"))
    /\ pc' = "finally"
    /\ UNCHANGED << args, exitCode, trace, fs, parseLocals, changeSetName, files,
                    classifyVars, groupVars >>

\* finally { deleteSources() }
UpdateChangeSetFinally ==
    /\ pc = "finally"
    /\ fs' = deleteSources(fs)
    /\ trace' = Append(trace, Ev("deleteSources", "ok"))
    /\ pc' = "idle"
    /\ UNCHANGED << args, exitCode, out, parseLocals, changeSetName, files, classifyVars, groupVars >>

\* Nothing is left to run: the process ends with code 0.
ProcessEnd ==
    /\ pc = "idle"
    /\ Exit(0)
    /\ UNCHANGED << args, out, trace, fs, parseLocals, changeSetName, files,
                    classifyVars, groupVars >>

Next ==
    \/ ParseArgsHelp
    \/ ParseArgsMissingBranch
    \/ ParseArgsRun
    \/ GenerateDiffPackageGitFails
    \/ GenerateDiffPackageNoChanges
    \/ GenerateDiffPackageThrows
    \/ GenerateDiffPackageWrites
    \/ SelectDeploy
    \/ SelectRetrieveOnly
    \/ SelectNone
    \/ UpdateChangeSetMissingName
    \/ UpdateChangeSetEnter
    \/ RetrieveMetadataOk
    \/ RetrieveOnlyOk
    \/ RetrieveMetadataFails
    \/ ExtractPackage
    \/ ExtractClose
    \/ ExtractError
    \/ ExtractReadError
    \/ UpdatePackageXMLOk
    \/ UpdatePackageXMLThrows
    \/ ZipPackage
    \/ ZipClose
    \/ ZipError
    \/ ZipOutputError
    \/ DeployPackageOk
    \/ DeployPackageFails
    \/ UpdateChangeSetSucceeds
    \/ UpdateChangeSetCatch
    \/ UpdateChangeSetFinally
    \/ ProcessEnd

Spec == Init /\ [][Next]_vars

\* ------------------------------------------------------------------------
\* Classification on its own: mapToMetadata applied to one path
\* ------------------------------------------------------------------------

InitClassify ==
    /\ file \in Paths
    /\ record = [type |-> Unset, name |-> Unset]
    /\ pc = "classify"
    /\ args = <<>>
    /\ exitCode = -1
    /\ out = <<>>
    /\ trace = <<>>
    /\ fs = CleanDisk
    /\ branchName = Unset
    /\ isDeployFlag = FALSE
    /\ isRetrieveFlag = FALSE
    /\ changeSetName = Unset
    /\ files = UnsetList
    /\ items = <<>>
    /\ grouped = <<>>
    /\ xml = Unset

Classify ==
    /\ pc = "classify"
    /\ record' = mapToMetadata(file)
    /\ pc' = "classified"
    /\ UNCHANGED << file, args, exitCode, out, trace, fs, parseLocals, changeSetName,
                    files, groupVars >>

NextClassify == Classify

SpecClassify == InitClassify /\ [][NextClassify]_vars

\* ------------------------------------------------------------------------
\* The manifest on its own: the body of generateDiffPackage applied to a
\* list of changed paths
\* ------------------------------------------------------------------------

\* The longest list of changed paths.
MaxFiles == 3

\* The changed paths: files no rule matches (one of them a class without a
\* directory above classes), classes, a trigger, the field of an object, a
\* field file outside any objects folder, and a field file directly in an
\* objects folder.
FileAtoms ==
    { <<"R","E","A","D","M","E",".","m","d">>,
      <<"c","l","a","s","s","e","s","/","F","o","o",".","c","l","s">>,
      <<"f","o","r","c","e","-","a","p","p","/","m","a","i","n","/","d","e","f","a","u","l","t","/","c","l","a","s","s","e","s","/","F","o","o",".","c","l","s">>,
      <<"f","o","r","c","e","-","a","p","p","/","m","a","i","n","/","d","e","f","a","u","l","t","/","c","l","a","s","s","e","s","/","F","o","o",".","c","l","s","-","m","e","t","a",".","x","m","l">>,
      <<"s","r","c","/","c","l","a","s","s","e","s","/","b",".","c","l","s">>,
      <<"s","r","c","/","t","r","i","g","g","e","r","s","/","T",".","t","r","i","g","g","e","r">>,
      <<"s","r","c","/","o","b","j","e","c","t","s","/","A","c","c","t","/","f","i","e","l","d","s","/","F",".","f","i","e","l","d","-","m","e","t","a",".","x","m","l">>,
      <<"d","o","c","s","/","f","i","e","l","d","s","/","G",".","f","i","e","l","d","-","m","e","t","a",".","x","m","l">>,
      <<"s","r","c","/","o","b","j","e","c","t","s","/","f","i","e","l","d","s","/","H",".","f","i","e","l","d","-","m","e","t","a",".","x","m","l">> }

\* The non-empty lists getChangedFiles can return.
FileLists == UNION {[1..n -> FileAtoms] : n \in 1..MaxFiles}

InitManifest ==
    /\ files \in FileLists
    /\ items = <<>>
    /\ grouped = <<>>
    /\ xml = Unset
    /\ pc = "mapFiles"
    /\ args = <<>>
    /\ exitCode = -1
    /\ out = <<>>
    /\ trace = <<>>
    /\ fs = CleanDisk
    /\ branchName = Unset
    /\ isDeployFlag = FALSE
    /\ isRetrieveFlag = FALSE
    /\ changeSetName = Unset
    /\ file = Unset
    /\ record = [type |-> Unset, name |-> Unset]

\* files.map(mapToMetadata).filter(Boolean)
MapFilesOk ==
    /\ pc = "mapFiles"
    /\ ~mapFilesThrows(files)
    /\ items' = metadataOf(files)
    /\ trace' = Append(trace, Ev("mapToMetadata", "ok"))
    /\ pc' = "groupMetadata"
    /\ UNCHANGED << args, exitCode, out, fs, parseLocals, changeSetName, files,
                    classifyVars, grouped, xml >>

\* A mapToMetadata call throws.
MapFilesThrows ==
    /\ pc = "mapFiles"
    /\ mapFilesThrows(files)
    /\ trace' = Append(trace, Ev("mapToMetadata", "fail"))
    /\ pc' = "thrown"
    /\ UNCHANGED << args, exitCode, out, fs, parseLocals, changeSetName, files,
                    classifyVars, groupVars >>

\* groupMetadata(metadata)
GroupMetadataOk ==
    /\ pc = "groupMetadata"
    /\ ~groupMetadataThrows(items)
    /\ grouped' = groupMetadata(items)
    /\ trace' = Append(trace, Ev("groupMetadata", "ok"))
    /\ pc' = "generatePackageXML"
    /\ UNCHANGED << args, exitCode, out, fs, parseLocals, changeSetName, files,
                    classifyVars, items, xml >>

\* The comparator of groupMetadata throws.
GroupMetadataThrows ==
    /\ pc = "groupMetadata"
    /\ groupMetadataThrows(items)
    /\ trace' = Append(trace, Ev("groupMetadata", "fail"))
    /\ pc' = "thrown"
    /\ UNCHANGED << args, exitCode, out, fs, parseLocals, changeSetName, files,
                    classifyVars, groupVars >>

\* generatePackageXML(grouped)
GeneratePackageXML ==
    /\ pc = "generatePackageXML"
    /\ xml' = generatePackageXML(grouped)
    /\ trace' = Append(trace, Ev("generatePackageXML", "ok"))
    /\ pc' = "serialized"
    /\ UNCHANGED << args, exitCode, out, fs, parseLocals, changeSetName, files,
                    classifyVars, items, grouped >>

NextManifest ==
    \/ MapFilesOk
    \/ MapFilesThrows
    \/ GroupMetadataOk
    \/ GroupMetadataThrows
    \/ GeneratePackageXML

SpecManifest == InitManifest /\ [][NextManifest]_vars

\* ------------------------------------------------------------------------
\* Aggregation on its own: groupMetadata and generatePackageXML applied to a
\* sequence of records
\* ------------------------------------------------------------------------

\* The longest sequence of records.
MaxItems == 3

\* The records handed to groupMetadata: two types; names that differ in
\* case only, a name that sorts behind them, and the null name of a field
\* file outside any objects folder.
ItemRecords ==
    [ type : { <<"A","p","e","x","C","l","a","s","s">>, <<"C","u","s","t","o","m","F","i","e","l","d">> },
      name : { <<"a">>, <<"A">>, <<"B">>, Null } ]

ItemLists == UNION {[1..n -> ItemRecords] : n \in 0..MaxItems}

InitGroup ==
    /\ items \in ItemLists
    /\ grouped = <<>>
    /\ xml = Unset
    /\ pc = "groupMetadata"
    /\ files = UnsetList
    /\ args = <<>>
    /\ exitCode = -1
    /\ out = <<>>
    /\ trace = <<>>
    /\ fs = CleanDisk
    /\ branchName = Unset
    /\ isDeployFlag = FALSE
    /\ isRetrieveFlag = FALSE
    /\ changeSetName = Unset
    /\ file = Unset
    /\ record = [type |-> Unset, name |-> Unset]

NextGroup ==
    \/ GroupMetadataOk
    \/ GroupMetadataThrows
    \/ GeneratePackageXML

SpecGroup == InitGroup /\ [][NextGroup]_vars

\* ------------------------------------------------------------------------
\* deleteSources on every disk, called several times in a row
\* ------------------------------------------------------------------------

\* How often deleteSources is called in a row.
MaxCalls == 2

\* Every disk the tool can meet: package-diff.xml present or not,
\* retrievedSource/ present or not and, when present, holding any of its
\* files; the sources of the project as committed or as retrieved.
Disks ==
    { d \in [ manifest   : {NoFile, generatePackageXML(<<>>)},
              folder     : BOOLEAN,
              zip        : RetrievedPackageXml,
              unpackaged : BOOLEAN,
              packageXml : RetrievedPackageXml,
              finalZip   : {"absent", "stale", "partial", "fresh"},
              project    : {"committed", "retrieved"} ] :
        /\ ~d.folder => d.zip = NoFile /\ ~d.unpackaged /\ d.finalZip = "absent"
        /\ ~d.unpackaged => d.packageXml = NoFile }

InitCleanup ==
    /\ fs \in Disks
    /\ pc = "deleteSources"
    /\ trace = <<>>
    /\ exitCode = -1
    /\ out = <<>>
    /\ args = <<>>
    /\ branchName = Unset
    /\ isDeployFlag = FALSE
    /\ isRetrieveFlag = FALSE
    /\ changeSetName = Unset
    /\ files = UnsetList
    /\ file = Unset
    /\ record = [type |-> Unset, name |-> Unset]
    /\ items = <<>>
    /\ grouped = <<>>
    /\ xml = Unset

\* One call of deleteSources: fs.rmSync is called for each of the two paths
\* that fs.existsSync finds.
DeleteSources ==
    /\ pc = "deleteSources"
    /\ fs' = deleteSources(fs)
    /\ trace' = trace
                 \o (IF fs.folder THEN << Ev("rmSync retrievedSource", "ok") >> ELSE <<>>)
                 \o (IF fs.manifest # NoFile THEN << Ev("rmSync package-diff.xml", "ok") >>
                                             ELSE <<>>)
                 \o << Ev("deleteSources", "ok") >>
    /\ pc' = IF Cardinality({i \in 1..Len(trace) : trace[i] = Ev("deleteSources", "ok")}) + 1
                 < MaxCalls
             THEN "deleteSources" ELSE "idle"
    /\ UNCHANGED << args, exitCode, out, parseLocals, changeSetName, files, classifyVars, groupVars >>

NextCleanup ==
    \/ DeleteSources
    \/ ProcessEnd

SpecCleanup == InitCleanup /\ [][NextCleanup]_vars

\* ------------------------------------------------------------------------
\* Properties
\* ------------------------------------------------------------------------

\* The operation was invoked and ended this way.
Has(op, ev) == \E i \in 1..Len(trace) : trace[i] = Ev(op, ev)

Count(op, ev) == Cardinality({i \in 1..Len(trace) : trace[i] = Ev(op, ev)})

\* The stages of the pipeline.
Stages == {TryBlock[k] : k \in 1..Len(TryBlock)}

ExternalCommands == {"git rev-parse", "git diff", "sf retrieve", "sf deploy"}

PrintedError == \E i \in 1..Len(out) : out[i].stream = "stderr"

\* C1: every run of the deploy pipeline has run deleteSources when the
\* process ends, whichever stage failed, so that neither retrievedSource
\* nor package-diff.xml exists at process end.
C1_CleanupBeforeProcessEnd ==
    (pc = "exited" /\ Has("updateChangeSet", "call"))
        => /\ Has("deleteSources", "ok")
           /\ ~fs.folder
           /\ fs.manifest = NoFile

\* C2: whenever a stage of updateChangeSet fails, the run prints an error
\* line and the process ends with a non-zero exit code.
C2_StageFailureExitsNonZero ==
    (pc = "exited" /\ \E stage \in Stages : Has(stage, "fail"))
        => PrintedError /\ exitCode # 0

\* The stage events of a deploy run in which every stage succeeds.
StageOrder ==
    << Ev("writeManifest", "ok"),
       Ev("retrieveMetadata", "call"), Ev("retrieveMetadata", "ok"),
       Ev("extractPackage", "call"), Ev("extractPackage", "ok"),
       Ev("updatePackageXML", "call"), Ev("updatePackageXML", "ok"),
       Ev("zipPackage", "call"), Ev("zipPackage", "ok"),
       Ev("deployPackage", "call"), Ev("deployPackage", "ok") >>

StageEvents == SelectSeq(trace, LAMBDA e : e.op \in Stages \cup {"writeManifest"})

\* s is a prefix of StageOrder, its last event possibly a failure instead.
FollowsStageOrder(s) ==
    /\ Len(s) <= Len(StageOrder)
    /\ \A i \in 1..Len(s) :
          \/ s[i] = StageOrder[i]
          \/ i = Len(s) /\ s[i] = Ev(StageOrder[i].op, "fail") /\ StageOrder[i].ev = "ok"

\* C3: in a deploy run the operations occur in the order write
\* package-diff.xml, retrieveMetadata, extractPackage, updatePackageXML,
\* zipPackage, deployPackage; a stage starts only when the one before it has
\* ended well, so no two overlap; and deployPackage is invoked only on a
\* final.zip that zipPackage completed in this run.
C3_StagesInOrder ==
    isDeployFlag =>
        /\ FollowsStageOrder(StageEvents)
        /\ pc = "deployPackage" => fs.finalZip = "fresh"
        /\ Has("deployPackage", "call") => Has("zipPackage", "ok")

C3_Witness == pc = "exited" /\ Has("deployPackage", "ok")

\* C4: the retrieval command and the deployment command are each invoked at
\* most once in a run, and after either has failed no stage is started and
\* no external command is run.
C4_NoRetryNoStageAfterFailure ==
    /\ Count("sf retrieve", "ok") + Count("sf retrieve", "fail") <= 1
    /\ Count("sf deploy", "ok") + Count("sf deploy", "fail") <= 1
    /\ \A i \in 1..Len(trace) :
          trace[i] \in {Ev("sf retrieve", "fail"), Ev("sf deploy", "fail")}
              => \A j \in (i + 1)..Len(trace) :
                    /\ trace[j].op \notin ExternalCommands
                    /\ trace[j].op \in Stages => trace[j].ev = "fail" /\ j = i + 1

C4_Witness ==
    /\ pc = "exited"
    /\ Has("sf retrieve", "ok")
    /\ Has("sf deploy", "fail")
    /\ Has("deleteSources", "ok")

\* C5: with an empty list of changed files generateDiffPackage calls none
\* of mapToMetadata, groupMetadata and generatePackageXML, writes no
\* package-diff.xml and ends the process with code 0, also when the deploy
\* or the retrieve-only flag was given: neither retrieveMetadata nor
\* updateChangeSet is started.
C5_NoChangesExitsZero ==
    files = <<>> =>
        /\ pc = "exited" /\ exitCode = 0
        /\ \A i \in 1..Len(trace) : trace[i].op \in {"git rev-parse", "git diff"}
        /\ fs \in {CleanDisk, LeftoverDisk}

C5_Witness == files = <<>> /\ pc = "exited" /\ isDeployFlag /\ isRetrieveFlag

\* No branch flag carries a value: every -b/--branch is the last argument.
NoBranchValue(argv) ==
    \A i \in 1..Len(argv) : argv[i] \in {BRANCH_FLAG, BRANCH_FLAG_SHORT} => i = Len(argv)

\* C6: when the comparison-branch argument is missing (no arguments, no
\* branch flag, or a branch flag without a value) parseArgs reports a usage
\* error, the process exits non-zero and nothing else is attempted: no git
\* query, no manifest write, no retrieval, no deployment.
C6_MissingBranchIsUsageError ==
    NoBranchValue(args) =>
        /\ \A i \in 1..Len(trace) : trace[i].op = "showHelp"
        /\ pc = "exited" => PrintedError /\ exitCode # 0

\* The argument behind the deploy flag.
changeSetArg(argv) ==
    IF ArrayIncludes(argv, DEPLOY_FLAG) THEN getArg(argv, DEPLOY_FLAG)
    ELSE getArg(argv, DEPLOY_FLAG_SHORT)

\* C7: in deploy mode the label updatePackageXML stamps into package.xml as
\* <fullName> is the change-set name the caller gave behind the deploy flag
\* (for a package.xml that holds the namespace tag, so that a label is
\* stamped at all).
C7_LabelIsChangeSetName ==
    ( /\ Has("updatePackageXML", "ok")
      /\ fs.packageXml # NoFile
      /\ Includes(fs.packageXml, <<"<","f","u","l","l","N","a","m","e",">">>)
      /\ Truthy(branchNameOf(args)) /\ ~StartsWith(branchNameOf(args), <<"-">>)
      /\ Truthy(changeSetArg(args)) /\ ~StartsWith(changeSetArg(args), <<"-">>) )
        => Includes(fs.packageXml,
                    <<"<","f","u","l","l","N","a","m","e",">">> \o changeSetArg(args) \o <<"<","/","f","u","l","l","N","a","m","e",">">>)

\* C8: as the help text says, the branch flag is not needed for the
\* retrieve-only and the deploy mode: with -r alone the retrieval is invoked
\* on the existing package-diff.xml, with -d <changeSetName> alone the deploy
\* pipeline runs.
C8_ModesWithoutBranch ==
    pc = "exited" =>
        /\ args = << RETRIEVE_ONLY_FLAG_SHORT >>
              => Has("sf retrieve", "ok") \/ Has("sf retrieve", "fail")
        /\ args = << DEPLOY_FLAG_SHORT, <<"C","S">> >> => Has("updateChangeSet", "call")

LastSegment(path) == LET parts == Split(path, <<"/">>) IN parts[Len(parts)]

\* C9: for a path that holds the marker of a single-file rule and ends with
\* its extension, mapToMetadata returns the type of the rule and the last
\* segment without exactly the trailing extension.
C9_SingleFileName ==
    pc = "classified" =>
        \A k \in 1..Len(singleFiles) :
            (Includes(file, singleFiles[k].dir) /\ EndsWith(file, singleFiles[k].ext))
                => record = [type |-> singleFiles[k].type,
                             name |-> SubSeq(LastSegment(file), 1,
                                          Len(LastSegment(file)) - Len(singleFiles[k].ext))]

\* The segment behind the first occurrence of the marker in the path.
SegmentAfterMarker(path, dir) ==
    LET i == IndexOfSub(path, dir)
    IN Split(SubSeq(path, i + Len(dir), Len(path)), <<"/">>)[1]

\* C10: for every path that holds a bundle marker (/lwc/ or /aura/),
\* mapToMetadata returns the bundle type of that marker and the segment
\* right behind the marker, whatever lies beneath or before it.
C10_BundleOfEveryMarker ==
    pc = "classified" =>
        \A k \in 1..Len(bundleTypes) :
            Includes(file, bundleTypes[k].dir)
                => record = [type |-> bundleTypes[k].type,
                             name |-> SegmentAfterMarker(file, bundleTypes[k].dir)]


\* The segments of a path.
PathParts(path) == Split(path, <<"/">>)

\* The path has the shape <prefix>/objects/<Obj>/fields/<Field>.field-meta.xml.
IsFieldPath(path) ==
    LET parts == PathParts(path)
        n == Len(parts)
    IN /\ n >= 5
       /\ parts[n - 3] = <<"o","b","j","e","c","t","s">>
       /\ parts[n - 1] = <<"f","i","e","l","d","s">>
       /\ EndsWith(parts[n], <<".","f","i","e","l","d","-","m","e","t","a",".","x","m","l">>)
       /\ Len(parts[n]) > Len(<<".","f","i","e","l","d","-","m","e","t","a",".","x","m","l">>)

\* "<Obj>.<Field>" of a path of that shape.
FieldMemberName(path) ==
    LET parts == PathParts(path)
        n == Len(parts)
    IN parts[n - 2] \o <<".">>
       \o SubSeq(parts[n], 1, Len(parts[n]) - Len(<<".","f","i","e","l","d","-","m","e","t","a",".","x","m","l">>))

\* C11: for every path <prefix>/objects/<Obj>/fields/<Field>.field-meta.xml,
\* whatever the prefix, the object and the field, mapToMetadata returns the
\* record of type CustomField named "<Obj>.<Field>".
C11_FieldRecord ==
    (pc = "classified" /\ IsFieldPath(file)) =>
        record = [type |-> <<"C","u","s","t","o","m","F","i","e","l","d">>, name |-> FieldMemberName(file)]



\* The text between the opening and the closing tag of a line.
Inner(line, open, close) == SubSeq(line, Len(open) + 1, Len(line) - Len(close))

\* One types block of a manifest, read back: its name and its members in
\* the order of the text.
ReadBlock(block) ==
    LET body == Split(block, <<" "," ","<","/","t","y","p","e","s",">">>)[1]
        lines == Split(body, <<"\n">>)
        members == SelectSeq(lines, LAMBDA l : StartsWith(l, <<" "," "," "," ","<","m","e","m","b","e","r","s",">">>))
        names == SelectSeq(lines, LAMBDA l : StartsWith(l, <<" "," "," "," ","<","n","a","m","e",">">>))
    IN [ type  |-> Inner(names[1], <<" "," "," "," ","<","n","a","m","e",">">>, <<"<","/","n","a","m","e",">">>),
         names |-> [k \in 1..Len(members) |->
                       Inner(members[k], <<" "," "," "," ","<","m","e","m","b","e","r","s",">">>, <<"<","/","m","e","m","b","e","r","s",">">>)] ]

\* The types blocks of a manifest, read back from its text.
ManifestBlocks(text) ==
    LET blocks == Tail(Split(text, <<" "," ","<","t","y","p","e","s",">","\n">>))
    IN [k \in 1..Len(blocks) |-> ReadBlock(blocks[k])]

\* The member entries (type, name) of a manifest.
ManifestEntries(text) ==
    LET blocks == ManifestBlocks(text)
    IN UNION { { << blocks[k].type, blocks[k].names[i] >> : i \in 1..Len(blocks[k].names) } :
                 k \in 1..Len(blocks) }

\* The (type, name) pairs mapToMetadata gives for the paths of a list.
ClassifiedEntries(fileList) ==
    { << mapToMetadata(fileList[i]).type, ToStr(mapToMetadata(fileList[i]).name) >> :
        i \in { k \in 1..Len(fileList) : mapToMetadata(fileList[k]) # NoRecord } }

\* Every path of the list is matched by no rule or classified with a name.
Classifiable(fileList) ==
    \A i \in 1..Len(fileList) :
        \/ mapToMetadata(fileList[i]) = NoRecord
        \/ ( /\ mapToMetadata(fileList[i]) # ThrownRecord
             /\ mapToMetadata(fileList[i]).name # Null )


Permute(seq, p) == [i \in 1..Len(seq) |-> seq[p[i]]]

\* The permutations of a sequence, and the sequence with records repeated:
\* twice over, and with one of its records once more at either end.
Rearrangements(seq) ==
    { Permute(seq, p) : p \in Permutations(1..Len(seq)) }
    \cup { seq \o seq }
    \cup { Append(seq, seq[k]) : k \in 1..Len(seq) }
    \cup { << seq[k] >> \o seq : k \in 1..Len(seq) }

\* A grouping as a mapping: the types, each with the set of its names.
AsMapping(g) ==
    { << g[k].type, { g[k].names[i] : i \in 1..Len(g[k].names) } >> : k \in 1..Len(g) }

\* C13: groupMetadata does not depend on the order of its input nor on
\* repetitions in it: every permutation and every duplication of a sequence
\* of records gives the same types with the same set of names each (and
\* fails when the sequence itself fails).
C13_GroupingIgnoresOrderAndRepeats ==
    /\ pc \in {"generatePackageXML", "serialized"} =>
          \A other \in Rearrangements(items) :
              /\ ~groupMetadataThrows(other)
              /\ AsMapping(groupMetadata(other)) = AsMapping(grouped)
    /\ (pc = "thrown" /\ Has("groupMetadata", "fail")) =>
          \A other \in Rearrangements(items) : groupMetadataThrows(other)

C13_Witness ==
    /\ pc = "serialized"
    /\ Len(grouped) = 2
    /\ \E other \in Rearrangements(items) :
          /\ groupMetadata(other)[1].type # grouped[1].type
          /\ AsMapping(groupMetadata(other)) = AsMapping(grouped)



\* The types of a grouping in the order of its keys.
TypeOrder(g) == [k \in 1..Len(g) |-> g[k].type]

\* C14: two inputs that give the same types in the same order and per type
\* the same set of names are serialized to the same text, whatever the
\* order in which the names were added, names that differ only in letter
\* case included.
C14_SameContentSameText ==
    pc = "serialized" =>
        \A other \in Rearrangements(items) :
            ( /\ TypeOrder(groupMetadata(other)) = TypeOrder(grouped)
              /\ AsMapping(groupMetadata(other)) = AsMapping(grouped) )
            => generatePackageXML(groupMetadata(other)) = xml



\* The eight flags the tool knows.
KnownFlags ==
    { HELP_FLAG, HELP_FLAG_SHORT, BRANCH_FLAG, BRANCH_FLAG_SHORT,
      RETRIEVE_ONLY_FLAG, RETRIEVE_ONLY_FLAG_SHORT, DEPLOY_FLAG, DEPLOY_FLAG_SHORT }

\* A help flag is among the arguments.
HelpAsked(argv) == \E i \in 1..Len(argv) : argv[i] \in {HELP_FLAG, HELP_FLAG_SHORT}

\* Flags are given and none of them is a known one.
OnlyUnknownFlags(argv) ==
    /\ \E i \in 1..Len(argv) : argv[i][1] = "-"
    /\ \A i \in 1..Len(argv) : argv[i][1] = "-" => argv[i] \notin KnownFlags

\* C15: when a help flag is present, or flags are given and none of them
\* is supported, parseArgs shows the help text and the process ends; none
\* of generateDiffPackage, retrieveMetadata and updateChangeSet runs.
C15_HelpForUnknownFlags ==
    (HelpAsked(args) \/ OnlyUnknownFlags(args)) =>
        \/ pc = "parseArgs"
        \/ /\ pc = "exited"
           /\ trace = << Ev("showHelp", "ok") >>
           /\ out = << Log("help") >>

C15_Witness ==
    /\ pc = "exited"
    /\ OnlyUnknownFlags(args) /\ ~HelpAsked(args)
    /\ Len(args) >= 2



\* The names are pairwise distinct.
Distinct(names) ==
    \A i, j \in 1..Len(names) : names[i] = names[j] => i = j

\* The names ascend in case-insensitive order: no name sorts behind a
\* later one once both are lower-cased.
AscendingIgnoringCase(names) ==
    \A i, j \in 1..Len(names) :
        i < j => LocaleCompare(ToLowerCase(names[i]), ToLowerCase(names[j])) <= 0

\* C16: in every result of groupMetadata the names of a type are pairwise
\* distinct and in ascending case-insensitive order, and the types blocks
\* of the serialized manifest list them so.
C16_NamesDistinctAndSorted ==
    /\ pc \in {"generatePackageXML", "serialized"} =>
          \A k \in 1..Len(grouped) :
              /\ Distinct(grouped[k].names)
              /\ AscendingIgnoringCase(grouped[k].names)
    /\ pc = "serialized" =>
          ManifestBlocks(xml) =
              [k \in 1..Len(grouped) |->
                  [ type  |-> grouped[k].type,
                    names |-> [i \in 1..Len(grouped[k].names) |->
                                  ToStr(grouped[k].names[i])] ]]

C16_Witness ==
    /\ pc = "serialized"
    /\ Len(items) = 3
    /\ Len(grouped) = 1
    /\ Len(grouped[1].names) = 2
    /\ grouped[1].names[1] = items[2].name
    /\ items[1] = items[3]



\* A rule of the priority list: its rank, its type, its marker and the
\* extension it asks for (none for the bundles and the static resources).
PriorityRule(rank, type, dir, ext) ==
    [rank |-> rank, type |-> type, dir |-> dir, ext |-> ext]

\* The rules in their order of precedence: single-file, bundle, object-child,
\* folder-based, static-resource, each table in its own order.
PriorityRules ==
    [k \in 1..Len(singleFiles) |->
        PriorityRule(1, singleFiles[k].type, singleFiles[k].dir, singleFiles[k].ext)]
    \o [k \in 1..Len(bundleTypes) |->
        PriorityRule(2, bundleTypes[k].type, bundleTypes[k].dir, <<>>)]
    \o [k \in 1..Len(objectChildren) |->
        PriorityRule(3, objectChildren[k].type, objectChildren[k].dir, objectChildren[k].ext)]
    \o [k \in 1..Len(folderBased) |->
        PriorityRule(4, folderBased[k].type, folderBased[k].dir, folderBased[k].ext)]
    \o << PriorityRule(5, <<"S","t","a","t","i","c","R","e","s","o","u","r","c","e">>, <<"/","s","t","a","t","i","c","r","e","s","o","u","r","c","e","s","/">>, <<>>) >>

\* The positions of the rules of the priority list that the path satisfies.
SatisfiedRules(path) ==
    { k \in 1..Len(PriorityRules) :
        /\ IndexOfSub(path, PriorityRules[k].dir) # 0
        /\ Len(path) >= Len(PriorityRules[k].ext)
        /\ SubSeq(path, Len(path) - Len(PriorityRules[k].ext) + 1, Len(path))
               = PriorityRules[k].ext }

\* C17: the record mapToMetadata returns is that of the first rule the path
\* satisfies, the categories taken in the order single-file, bundle,
\* object-child, folder-based, static-resource and each table in its own
\* order; a path that satisfies no rule gives null.
C17_FirstMatchingRuleWins ==
    pc = "classified" =>
        LET hits == SatisfiedRules(file)
        IN IF hits = {} THEN record = NoRecord
           ELSE \/ record = ThrownRecord
                \/ record.type = PriorityRules[CHOOSE k \in hits : \A j \in hits : k <= j].type

C17_Witness ==
    /\ pc = "classified"
    /\ { PriorityRules[k].rank : k \in SatisfiedRules(file) } = {1, 2}
    /\ record.type = <<"A","p","e","x","C","l","a","s","s">>



\* The first rule the path satisfies is an object-child rule.
IsObjectChildPath(path) ==
    /\ SatisfiedRules(path) # {}
    /\ PriorityRules[CHOOSE k \in SatisfiedRules(path) :
                        \A j \in SatisfiedRules(path) : k <= j].rank = 3

\* C18: a changed path that matches an object-child rule, with or without
\* the segments objects/<Obj>/<childFolder>/<file>, never makes
\* classification or aggregation throw: mapToMetadata returns a record (or
\* none) and groupMetadata and generatePackageXML complete for the list.
C18_MalformedPathNeverThrows ==
    (\A i \in 1..Len(files) :
        IsObjectChildPath(files[i]) \/ mapToMetadata(files[i]) # ThrownRecord)
    => pc # "thrown"



\* The first rule the path satisfies, for a path that satisfies one.
WinningRule(path) ==
    PriorityRules[CHOOSE k \in SatisfiedRules(path) : \A j \in SatisfiedRules(path) : k <= j]

\* The first rule the path satisfies is a folder-based rule.
IsFolderPath(path) == SatisfiedRules(path) # {} /\ WinningRule(path).rank = 4

\* The path below the marker directory of the rule, without the extension
\* of the rule.
BelowMarker(path, rule) ==
    SubSeq(path, IndexOfSub(path, rule.dir) + Len(rule.dir), Len(path) - Len(rule.ext))

\* C19: for a path that matches a folder-based rule the name is the whole
\* relative path below the marker directory without the suffix, sub-folders
\* kept, however many segments stand in front of the marker directory.
C19_FolderNameBelowMarker ==
    (pc = "classified" /\ IsFolderPath(file)) =>
        record = [ type |-> WinningRule(file).type,
                   name |-> BelowMarker(file, WinningRule(file)) ]



\* The document with one <fullName> element of the label put right behind
\* the first occurrence of the namespace tag, or the document itself when
\* it does not hold the tag.
WithFullName(doc, label) ==
    LET i == IndexOfSub(doc, PACKAGE_OPEN_TAG)
        behind == i + Len(PACKAGE_OPEN_TAG)
    IN IF i = 0 THEN doc
       ELSE SubSeq(doc, 1, behind - 1)
            \o <<"\n"," "," "," "," ","<","f","u","l","l","N","a","m","e",">">> \o label \o <<"<","/","f","u","l","l","N","a","m","e",">">>
            \o SubSeq(doc, behind, Len(doc))

\* C20: updatePackageXML puts exactly one <fullName> element right behind
\* the first occurrence of the exact namespace tag and changes nothing else
\* of the document nor of the disk; a package.xml without that tag is
\* written back unchanged; in both cases no error is raised and the
\* pipeline goes on with zipPackage.
C20_FullNameInsertedOnce ==
    [][ (pc = "updatePackageXML" /\ fs.packageXml # NoFile) =>
            /\ fs' = [fs EXCEPT !.packageXml = WithFullName(fs.packageXml, changeSetName)]
            /\ pc' = "zipPackage"
            /\ trace' = trace \o << Ev("updatePackageXML", "call"), Ev("updatePackageXML", "ok") >>
      ]_vars

C20_Witness ==
    /\ Has("deployPackage", "ok")
    /\ fs.packageXml # NoFile
    /\ ~Includes(fs.packageXml, <<"<","f","u","l","l","N","a","m","e",">">>)

\* C21: deleteSources is permissive and idempotent. Whatever of
\* retrievedSource/ and package-diff.xml is on the disk before a call, both
\* are absent after it; nothing beside them is touched; and a call that
\* finds both absent, as every second call in a row does, changes nothing
\* on the disk, prints nothing and does not end the process.
C21_DeleteSourcesPermissiveIdempotent ==
    [][ Count("deleteSources", "ok")' = Count("deleteSources", "ok") + 1
        => /\ ~fs'.folder /\ fs'.manifest = NoFile
           /\ fs'.zip = NoFile /\ ~fs'.unpackaged /\ fs'.packageXml = NoFile
           /\ fs'.finalZip = "absent"
           /\ fs'.project = fs.project
           /\ (~fs.folder /\ fs.manifest = NoFile => fs' = fs /\ trace' = Append(trace, Ev("deleteSources", "ok")))
           /\ Count("deleteSources", "ok") >= 1 => fs' = fs
           /\ out' = out /\ exitCode' = exitCode /\ pc' # "exited" ]_vars

\* Both paths were on the disk, the first call removed both, and a second
\* call followed.
C21_Witness ==
    /\ Count("deleteSources", "ok") = 2
    /\ Count("rmSync retrievedSource", "ok") = 1
    /\ Count("rmSync package-diff.xml", "ok") = 1
    /\ ~fs.folder /\ fs.manifest = NoFile
    /\ fs.project = "retrieved"

\* The deploy flag is among the arguments.
DeployAsked == \E i \in 1..Len(args) : args[i] \in {DEPLOY_FLAG, DEPLOY_FLAG_SHORT}

\* The retrieve-only flag is among the arguments.
RetrieveAsked ==
    \E i \in 1..Len(args) : args[i] \in {RETRIEVE_ONLY_FLAG, RETRIEVE_ONLY_FLAG_SHORT}

\* What only the deploy pipeline does.
PipelineOps ==
    {"updateChangeSet", "extractPackage", "updatePackageXML", "zipPackage", "deployPackage",
     "sf deploy"}

\* What only a retrieval or a cleanup does.
RetrievalOps == {"retrieveMetadata", "sf retrieve", "deleteSources"}

\* Every occurrence of the second event in the history has the first one
\* somewhere in front of it.
Precedes(first, second) ==
    \A j \in 1..Len(trace) :
        trace[j] = second => \E i \in 1..(j - 1) : trace[i] = first

====
